---- MODULE Spec2Model ----
(***************************************************************************)
(* Model of the USART2 driver of the STM32F091RC project: the circular     *)
(* byte buffer (Src/cbfifo.c) and the interrupt-driven serial port built   *)
(* on two instances of it (Src/usart.c).                                   *)
(*                                                                         *)
(* Two execution contexts exist.  The foreground (main and the functions   *)
(* it calls) is modelled one memory access per step, with its position in  *)
(* pc.  USART2_IRQHandler preempts the foreground between any two steps    *)
(* and runs to completion, so it is one atomic action.  The USART          *)
(* peripheral is the environment: it raises RXNE when a byte has arrived   *)
(* and raises TXE when the transmit data register has been emptied.        *)
(***************************************************************************)
EXTENDS Integers, Sequences, FiniteSets, TLC

(***************************************************************************)
(* Bounds of the model.  The source sets MAX_BUFFER_SIZE to 128            *)
(* (Src/cbfifo.h:17); the index arithmetic is the same for every capacity, *)
(* and a small capacity makes full, empty and wrap-around reachable.       *)
(***************************************************************************)
MAX_BUFFER_SIZE == 3

\* Most bytes that enter the port in one run: bytes accepted into tx plus
\* bytes the interrupt handler has read from the receive register.
MaxTraffic == 5

\* The byte values that travel through the buffers.
Bytes == {0, 1}

\* Arguments the foreground passes to __io_putchar (an int): two that fit a
\* byte and one that does not.
PutcharInputs == {0, 1, 257}

Indices == 0 .. (MAX_BUFFER_SIZE - 1)

VARIABLES
    pc,          \* position of the foreground
    CR1,         \* USART2->CR1, the set of its bits that are 1
    CR2,         \* USART2->CR2, the set of its bits that are 1
    BRR,         \* USART2->BRR
    ISR,         \* USART2->ISR, the set of its flags that are 1 (RXNE, TXE)
    RDR,         \* USART2->RDR (9 bits: the parity bit is bit 8)
    TDR,         \* USART2->TDR
    NVIC,        \* TRUE once NVIC_EnableIRQ(USART2_IRQn) has run
    rx_buffer, rx_head, rx_tail,
    tx_buffer, tx_head, tx_tail,
    ch,          \* __io_putchar: parameter ch;  __io_getchar: local ch
    next,        \* cbfifo_enqueue called by the foreground: local next
    ret,         \* result of the foreground's last cbfifo call
    cr1_tmp,     \* __io_putchar: CR1 as loaded by  CR1 |= TXEIE
    \* history variables (not program state)
    tx_accepted, \* bytes passed to the tx enqueues that returned 1
    tx_dequeued, \* bytes returned by the tx dequeues that returned 1
    tdr_log,     \* bytes written to TDR
    rx_accepted, \* bytes passed to the rx enqueues that returned 1
    rx_dequeued, \* bytes returned by the rx dequeues that returned 1
    rx_dropped,  \* number of rx enqueues that returned 0
    txeie_cleared, \* TRUE once the handler has cleared TXEIE
    stopped_after_drain, \* TRUE once it has cleared TXEIE after sending a byte
    \* the configuration the program was built with (never changes)
    cfg_parity,    \* USART_PARITY
    cfg_data_bits, \* USART_DATA_and_parity_BITS
    cfg_stop_bits  \* USART_STOP_BITS

hw   == <<CR1, CR2, BRR, ISR, RDR, TDR, NVIC>>
rx   == <<rx_buffer, rx_head, rx_tail>>
tx   == <<tx_buffer, tx_head, tx_tail>>
fg   == <<pc, ch, next, ret, cr1_tmp>>
hist == <<tx_accepted, tx_dequeued, tdr_log, rx_accepted, rx_dequeued,
          rx_dropped, txeie_cleared, stopped_after_drain>>
cfg  == <<cfg_parity, cfg_data_bits, cfg_stop_bits>>
vars == <<hw, rx, tx, fg, hist, cfg>>

\* Bytes that have entered the port so far.
Traffic == Len(tx_accepted) + Len(rx_accepted) + rx_dropped

(***************************************************************************)
(* Configuration defines of usart.c                                        *)
(***************************************************************************)
USART_BAUD_RATE == 19200
USART_DATA_and_parity_BITS == 9
USART_PARITY == "O"
USART_STOP_BITS == 1
peripheral_frequency == 24000000

(***************************************************************************)
(* Conversions                                                             *)
(***************************************************************************)
\* The conversion without the mask: all nine bits of RDR are kept.
ToUint8_NoMask(x) == x

\* (uint8_t)x and  x & 0xFF
ToUint8(x) == x % 256

RECURSIVE PopCount(_)
PopCount(x) == IF x = 0 THEN 0 ELSE (x % 2) + PopCount(x \div 2)

\* What the peripheral puts in RDR for a received data byte b: with parity
\* enabled and a 9-bit word, bit 8 is the received parity bit.
ReceivedWord(b, cr1) ==
    IF "PCE" \in cr1 /\ "M0" \in cr1
    THEN LET ones == PopCount(b)
             p    == IF "PS" \in cr1 THEN (ones + 1) % 2 ELSE ones % 2
         IN  b + 256 * p
    ELSE b

(***************************************************************************)
(* cbfifo.c                                                                *)
(***************************************************************************)
\* The index wrapped one slot too late.
NextIndex_WrapsLate(i) == (i + 1) % (MAX_BUFFER_SIZE + 1)

NextIndex(i) == (i + 1) % MAX_BUFFER_SIZE

\* Mutant: the full test forgets that the index wraps.
IsFull_NoWrap(head, tail) == head + 1 = tail

IsFull(head, tail) == NextIndex(head) = tail

IsEmpty(head, tail) == head = tail

\* Mutant: the slot is written before the full test.
cbfifo_enqueue_StoreFirst(buffer, head, tail, data) ==
    IF IsFull(head, tail)
    THEN [ret |-> 0, buffer |-> [buffer EXCEPT ![head] = data], head |-> head]
    ELSE [ret |-> 1, buffer |-> [buffer EXCEPT ![head] = data],
          head |-> NextIndex(head)]

\* Mutant: a full buffer overwrites instead of refusing.
cbfifo_enqueue_Overwrite(buffer, head, tail, data) ==
    [ret |-> 1, buffer |-> [buffer EXCEPT ![head] = data],
     head |-> NextIndex(head)]

\* cbfifo_enqueue run without preemption (as the interrupt handler runs it)
cbfifo_enqueue(buffer, head, tail, data) ==
    IF IsFull(head, tail)
    THEN [ret |-> 0, buffer |-> buffer, head |-> head]
    ELSE [ret |-> 1, buffer |-> [buffer EXCEPT ![head] = data],
          head |-> NextIndex(head)]

\* Mutant: the tail is not advanced.
cbfifo_dequeue_NoAdvance(buffer, head, tail, data) ==
    IF IsEmpty(head, tail)
    THEN [ret |-> 0, data |-> data, tail |-> tail]
    ELSE [ret |-> 1, data |-> buffer[tail], tail |-> tail]

\* Mutant: the slot is loaded before the empty test.
cbfifo_dequeue_LoadFirst(buffer, head, tail, data) ==
    IF IsEmpty(head, tail)
    THEN [ret |-> 0, data |-> buffer[tail], tail |-> tail]
    ELSE [ret |-> 1, data |-> buffer[tail], tail |-> NextIndex(tail)]

\* cbfifo_dequeue run without preemption (as the interrupt handler runs it)
cbfifo_dequeue(buffer, head, tail, data) ==
    IF IsEmpty(head, tail)
    THEN [ret |-> 0, data |-> data, tail |-> tail]
    ELSE [ret |-> 1, data |-> buffer[tail], tail |-> NextIndex(tail)]

(***************************************************************************)
(* Initial state: reset values of the peripheral, zeroed statics.          *)
(***************************************************************************)
ResetState ==
    /\ pc = "reset"
    /\ CR1 = {} /\ CR2 = {} /\ BRR = 0
    /\ ISR = {"TXE"}
    /\ RDR = 0 /\ TDR = 0
    /\ NVIC = FALSE
    /\ rx_buffer = [i \in Indices |-> 0] /\ rx_head = 0 /\ rx_tail = 0
    /\ tx_buffer = [i \in Indices |-> 0] /\ tx_head = 0 /\ tx_tail = 0
    /\ ch = 0 /\ next = 0 /\ ret = 0 /\ cr1_tmp = {}
    /\ tx_accepted = <<>> /\ tx_dequeued = <<>> /\ tdr_log = <<>>
    /\ rx_accepted = <<>> /\ rx_dequeued = <<>> /\ rx_dropped = 0
    /\ txeie_cleared = FALSE /\ stopped_after_drain = FALSE

\* The program as built from the configuration defines of usart.c.
Init ==
    /\ ResetState
    /\ cfg_parity = USART_PARITY
    /\ cfg_data_bits = USART_DATA_and_parity_BITS
    /\ cfg_stop_bits = USART_STOP_BITS

(***************************************************************************)
(* USART2_Init                                                             *)
(***************************************************************************)
\* CR1 after oversampling, parity, data bits and TE | RE | UE are written.
ConfiguredCR1(cr1, parity_cfg, data_bits) ==
    LET over   == cr1 \ {"OVER8"}
        parity == IF parity_cfg = "N" THEN over \ {"PCE"}
                  ELSE IF parity_cfg = "E" THEN (over \cup {"PCE"}) \ {"PS"}
                  ELSE IF parity_cfg = "O" THEN over \cup {"PCE", "PS"}
                  ELSE over \cup {"PCE"}
        bits   == IF data_bits = 9
                  THEN (parity \cup {"M0"}) \ {"M1"}
                  ELSE parity \ {"M0", "M1"}
    IN  bits \cup {"TE", "RE", "UE"}

\* CR2 after the stop bits are written.
ConfiguredCR2(cr2, stop_bits) ==
    IF stop_bits = 2 THEN cr2 \cup {"STOP_1"}
    ELSE cr2 \ {"STOP_0", "STOP_1"}

USART2_Init_Configure ==
    /\ pc = "reset"
    /\ BRR' = peripheral_frequency \div USART_BAUD_RATE
    /\ CR1' = ConfiguredCR1(CR1, cfg_parity, cfg_data_bits)
    /\ CR2' = ConfiguredCR2(CR2, cfg_stop_bits)
    /\ pc' = "init_ie"
    /\ UNCHANGED cfg
    /\ UNCHANGED <<ISR, RDR, TDR, NVIC, rx, tx, ch, next, ret, cr1_tmp, hist>>

\* Mutant: only the receive interrupt is enabled.
USART2_Init_EnableInterrupts_RxOnly ==
    /\ pc = "init_ie"
    /\ CR1' = CR1 \cup {"RXNEIE"}
    /\ pc' = "init_nvic"
    /\ UNCHANGED cfg
    /\ UNCHANGED <<CR2, BRR, ISR, RDR, TDR, NVIC, rx, tx, ch, next, ret,
                   cr1_tmp, hist>>

USART2_Init_EnableInterrupts ==
    /\ pc = "init_ie"
    /\ CR1' = CR1 \cup {"RXNEIE", "TXEIE"}
    /\ pc' = "init_nvic"
    /\ UNCHANGED cfg
    /\ UNCHANGED <<CR2, BRR, ISR, RDR, TDR, NVIC, rx, tx, ch, next, ret,
                   cr1_tmp, hist>>

USART2_Init_EnableIRQ ==
    /\ pc = "init_nvic"
    /\ NVIC' = TRUE
    /\ pc' = "idle"
    /\ UNCHANGED cfg
    /\ UNCHANGED <<CR1, CR2, BRR, ISR, RDR, TDR, rx, tx, ch, next, ret,
                   cr1_tmp, hist>>

(***************************************************************************)
(* __io_putchar (putchar), one memory access per step                      *)
(***************************************************************************)
Call_putchar ==
    /\ pc = "idle"
    /\ Traffic < MaxTraffic
    /\ \E c \in PutcharInputs : ch' = c
    /\ pc' = "pc_enq"
    /\ UNCHANGED cfg
    /\ UNCHANGED <<hw, rx, tx, next, ret, cr1_tmp, hist>>

\* The enqueue storing the byte into the slot at head before the full test.
Putchar_EnqCheck_StoresWhenFull ==
    /\ pc = "pc_enq"
    /\ next' = NextIndex(tx_head)
    /\ IF IsFull(tx_head, tx_tail)
       THEN /\ ret' = 0 /\ pc' = "pc_cr1_load"
            /\ tx_buffer' = [tx_buffer EXCEPT ![tx_head] = ToUint8(ch)]
       ELSE /\ ret' = ret /\ pc' = "pc_store"
            /\ tx_buffer' = tx_buffer
    /\ UNCHANGED cfg
    /\ UNCHANGED <<hw, rx, tx_head, tx_tail, ch, cr1_tmp, hist>>

\* cbfifo_enqueue: next = (*head + 1) % N; if (next == *tail) return 0;
Putchar_EnqCheck ==
    /\ pc = "pc_enq"
    /\ next' = NextIndex(tx_head)
    /\ IF IsFull(tx_head, tx_tail)
       THEN ret' = 0 /\ pc' = "pc_cr1_load"
       ELSE ret' = ret /\ pc' = "pc_store"
    /\ UNCHANGED cfg
    /\ UNCHANGED <<hw, rx, tx, ch, cr1_tmp, hist>>

\* The byte stored into the slot at next, the slot after the one at head.
Putchar_EnqStore_AtNext ==
    /\ pc = "pc_store"
    /\ tx_buffer' = [tx_buffer EXCEPT ![next] = ToUint8(ch)]
    /\ pc' = "pc_pub"
    /\ UNCHANGED cfg
    /\ UNCHANGED <<hw, rx, tx_head, tx_tail, ch, next, ret, cr1_tmp, hist>>

\* cbfifo_enqueue: buffer[*head] = data;
Putchar_EnqStore ==
    /\ pc = "pc_store"
    /\ tx_buffer' = [tx_buffer EXCEPT ![tx_head] = ToUint8(ch)]
    /\ pc' = "pc_pub"
    /\ UNCHANGED cfg
    /\ UNCHANGED <<hw, rx, tx_head, tx_tail, ch, next, ret, cr1_tmp, hist>>

\* cbfifo_enqueue: *head = next; return 1;
Putchar_EnqPublish ==
    /\ pc = "pc_pub"
    /\ tx_head' = next
    /\ ret' = 1
    /\ tx_accepted' = Append(tx_accepted, ToUint8(ch))
    /\ pc' = "pc_cr1_load"
    /\ UNCHANGED cfg
    /\ UNCHANGED <<hw, rx, tx_buffer, tx_tail, ch, next, cr1_tmp, tx_dequeued,
                   tdr_log, rx_accepted, rx_dequeued, rx_dropped, txeie_cleared,
                   stopped_after_drain>>

\* USART2->CR1 |= USART_CR1_TXEIE: the load
Putchar_CR1Load ==
    /\ pc = "pc_cr1_load"
    /\ cr1_tmp' = CR1
    /\ pc' = "pc_cr1_store"
    /\ UNCHANGED cfg
    /\ UNCHANGED <<hw, rx, tx, ch, next, ret, hist>>

\* Mutant: the store writes CR1 back without the TXEIE bit.
Putchar_CR1Store_NoEnable ==
    /\ pc = "pc_cr1_store"
    /\ CR1' = cr1_tmp
    /\ cr1_tmp' = {}
    /\ pc' = "pc_ret"
    /\ UNCHANGED cfg
    /\ UNCHANGED <<CR2, BRR, ISR, RDR, TDR, NVIC, rx, tx, ch, next, ret, hist>>

\* Mutant: the enable bit is written only when the enqueue succeeded.
Putchar_CR1Store_OnSuccess ==
    /\ pc = "pc_cr1_store"
    /\ CR1' = IF ret = 1 THEN cr1_tmp \cup {"TXEIE"} ELSE cr1_tmp
    /\ cr1_tmp' = {}
    /\ pc' = "pc_ret"
    /\ UNCHANGED cfg
    /\ UNCHANGED <<CR2, BRR, ISR, RDR, TDR, NVIC, rx, tx, ch, next, ret, hist>>

\* USART2->CR1 |= USART_CR1_TXEIE: the store
Putchar_CR1Store ==
    /\ pc = "pc_cr1_store"
    /\ CR1' = cr1_tmp \cup {"TXEIE"}
    /\ cr1_tmp' = {}
    /\ pc' = "pc_ret"
    /\ UNCHANGED cfg
    /\ UNCHANGED <<CR2, BRR, ISR, RDR, TDR, NVIC, rx, tx, ch, next, ret, hist>>

\* return ch;
PutcharReturnValue == ch

Putchar_Return ==
    /\ pc = "pc_ret"
    /\ pc' = "idle"
    /\ ch' = 0 /\ next' = 0 /\ ret' = 0
    /\ UNCHANGED cfg
    /\ UNCHANGED <<hw, rx, tx, cr1_tmp, hist>>

(***************************************************************************)
(* __io_getchar (getchar), one memory access per step                      *)
(***************************************************************************)
\* uint8_t ch;  is not initialised: it holds any byte.
Call_getchar ==
    /\ pc = "idle"
    /\ \E garbage \in Bytes : ch' = garbage
    /\ pc' = "gc_deq"
    /\ UNCHANGED cfg
    /\ UNCHANGED <<hw, rx, tx, next, ret, cr1_tmp, hist>>

\* cbfifo_dequeue: if (*head == *tail) return 0;
Getchar_DeqCheck ==
    /\ pc = "gc_deq"
    /\ IF IsEmpty(rx_head, rx_tail)
       THEN ret' = 0 /\ pc' = "gc_test"
       ELSE ret' = ret /\ pc' = "gc_load"
    /\ UNCHANGED cfg
    /\ UNCHANGED <<hw, rx, tx, ch, next, cr1_tmp, hist>>

\* cbfifo_dequeue: *data = buffer[*tail];
Getchar_DeqLoad ==
    /\ pc = "gc_load"
    /\ ch' = rx_buffer[rx_tail]
    /\ pc' = "gc_pub"
    /\ UNCHANGED cfg
    /\ UNCHANGED <<hw, rx, tx, next, ret, cr1_tmp, hist>>

\* The dequeue advancing the head index in place of the tail index.
Getchar_DeqPublish_AdvancesHead ==
    /\ pc = "gc_pub"
    /\ rx_head' = NextIndex(rx_head)
    /\ ret' = 1
    /\ rx_dequeued' = Append(rx_dequeued, ch)
    /\ pc' = "gc_test"
    /\ UNCHANGED cfg
    /\ UNCHANGED <<hw, rx_buffer, rx_tail, tx, ch, next, cr1_tmp, tx_accepted,
                   tx_dequeued, tdr_log, rx_accepted, rx_dropped, txeie_cleared,
                   stopped_after_drain>>

\* cbfifo_dequeue: *tail = (*tail + 1) % N; return 1;
Getchar_DeqPublish ==
    /\ pc = "gc_pub"
    /\ rx_tail' = NextIndex(rx_tail)
    /\ ret' = 1
    /\ rx_dequeued' = Append(rx_dequeued, ch)
    /\ pc' = "gc_test"
    /\ UNCHANGED cfg
    /\ UNCHANGED <<hw, rx_buffer, rx_head, tx, ch, next, cr1_tmp, tx_accepted,
                   tx_dequeued, tdr_log, rx_accepted, rx_dropped, txeie_cleared,
                   stopped_after_drain>>

\* The loop test inverted: leaves the loop when the dequeue returned 0.
Getchar_Test_Inverted ==
    /\ pc = "gc_test"
    /\ pc' = IF ret = 0 THEN "gc_ret" ELSE "gc_deq"
    /\ UNCHANGED cfg
    /\ UNCHANGED <<hw, rx, tx, ch, next, ret, cr1_tmp, hist>>

\* while (cbfifo_dequeue(...) == 0);
Getchar_Test ==
    /\ pc = "gc_test"
    /\ pc' = IF ret = 0 THEN "gc_deq" ELSE "gc_ret"
    /\ UNCHANGED cfg
    /\ UNCHANGED <<hw, rx, tx, ch, next, ret, cr1_tmp, hist>>

\* return ch;
GetcharReturnValue == ch

Getchar_Return ==
    /\ pc = "gc_ret"
    /\ pc' = "idle"
    /\ ch' = 0 /\ next' = 0 /\ ret' = 0
    /\ UNCHANGED cfg
    /\ UNCHANGED <<hw, rx, tx, cr1_tmp, hist>>

(***************************************************************************)
(* The peripheral                                                          *)
(***************************************************************************)
\* A byte arrives on the line while the receive register is free: RDR is
\* loaded and RXNE raised.  (A byte arriving while RXNE is still set is an
\* overrun: the peripheral keeps RDR and loses the new byte.)
HwReceive ==
    /\ {"RE", "UE"} \subseteq CR1
    /\ "RXNE" \notin ISR
    /\ Traffic < MaxTraffic
    /\ \E b \in Bytes : RDR' = ReceivedWord(b, CR1)
    /\ ISR' = ISR \cup {"RXNE"}
    /\ UNCHANGED cfg
    /\ UNCHANGED <<CR1, CR2, BRR, TDR, NVIC, rx, tx, fg, hist>>

\* The byte in TDR moves to the shift register: TXE is raised.
HwTransmit ==
    /\ {"TE", "UE"} \subseteq CR1
    /\ "TXE" \notin ISR
    /\ ISR' = ISR \cup {"TXE"}
    /\ UNCHANGED cfg
    /\ UNCHANGED <<CR1, CR2, BRR, RDR, TDR, NVIC, rx, tx, fg, hist>>

(***************************************************************************)
(* USART2_IRQHandler                                                       *)
(***************************************************************************)
\* The USART2 interrupt line is raised and the NVIC lets it through.
IRQPending ==
    /\ NVIC
    /\ \/ "RXNEIE" \in CR1 /\ "RXNE" \in ISR
       \/ "TXEIE" \in CR1 /\ "TXE" \in ISR

\* if (USART2->ISR & USART_ISR_RXNE)
HandlesRXNE == "RXNE" \in ISR

\* if ((USART2->CR1 & USART_CR1_TXEIE) && (USART2->ISR & USART_ISR_TXE))
\* The transmit branch taken on TXE alone, without testing TXEIE.
HandlesTXE_IgnoresEnable == "TXE" \in ISR

HandlesTXE == "TXEIE" \in CR1 /\ "TXE" \in ISR

\* Mutant: the handler clears TXEIE after sending a byte too.
HandlerCR1_AlwaysClear(cr1, handles_txe, deq_ret) ==
    IF handles_txe THEN cr1 \ {"TXEIE"} ELSE cr1

\* The test of the dequeue result inverted: TXEIE is cleared after a byte was
\* sent and kept when tx was empty.
HandlerCR1_ClearOnSend(cr1, handles_txe, deq_ret) ==
    IF handles_txe /\ deq_ret # 0 THEN cr1 \ {"TXEIE"} ELSE cr1

\* CR1 as the handler leaves it: in the transmit branch, a failed dequeue
\* clears TXEIE.
HandlerCR1(cr1, handles_txe, deq_ret) ==
    IF handles_txe /\ deq_ret = 0 THEN cr1 \ {"TXEIE"} ELSE cr1

USART2_IRQHandler ==
    /\ IRQPending
    /\ \E garbage \in Bytes :
        LET byte0 == IF HandlesRXNE THEN ToUint8(RDR) ELSE garbage
            enq   == cbfifo_enqueue(rx_buffer, rx_head, rx_tail, byte0)
            deq   == cbfifo_dequeue(tx_buffer, tx_head, tx_tail, byte0)
            sends == HandlesTXE /\ deq.ret # 0
        IN  /\ IF HandlesRXNE
               THEN /\ rx_buffer' = enq.buffer
                    /\ rx_head' = enq.head
                    /\ rx_accepted' = IF enq.ret = 1
                                      THEN Append(rx_accepted, byte0)
                                      ELSE rx_accepted
                    /\ rx_dropped' = IF enq.ret = 1 THEN rx_dropped
                                     ELSE rx_dropped + 1
               ELSE UNCHANGED <<rx_buffer, rx_head, rx_accepted, rx_dropped>>
            /\ IF sends
               THEN /\ tx_tail' = deq.tail
                    /\ TDR' = deq.data
                    /\ tx_dequeued' = Append(tx_dequeued, deq.data)
                    /\ tdr_log' = Append(tdr_log, deq.data)
               ELSE UNCHANGED <<tx_tail, TDR, tx_dequeued, tdr_log>>
            /\ CR1' = HandlerCR1(CR1, HandlesTXE, deq.ret)
            /\ txeie_cleared' = (txeie_cleared \/ ("TXEIE" \in CR1 \ CR1'))
            /\ stopped_after_drain' =
                   (stopped_after_drain
                       \/ ("TXEIE" \in CR1 \ CR1' /\ tdr_log # <<>>))
            /\ ISR' = (ISR \ (IF HandlesRXNE THEN {"RXNE"} ELSE {}))
                          \ (IF sends THEN {"TXE"} ELSE {})
    /\ UNCHANGED cfg
    /\ UNCHANGED <<CR2, BRR, RDR, NVIC, rx_tail, tx_buffer, tx_head, fg,
                   tx_accepted, rx_dequeued>>

(***************************************************************************)
(* The system                                                              *)
(***************************************************************************)
Next ==
    \/ USART2_Init_Configure
    \/ USART2_Init_EnableInterrupts
    \/ USART2_Init_EnableIRQ
    \/ Call_putchar
    \/ Putchar_EnqCheck
    \/ Putchar_EnqStore
    \/ Putchar_EnqPublish
    \/ Putchar_CR1Load
    \/ Putchar_CR1Store
    \/ Putchar_Return
    \/ Call_getchar
    \/ Getchar_DeqCheck
    \/ Getchar_DeqLoad
    \/ Getchar_DeqPublish
    \/ Getchar_Test
    \/ Getchar_Return
    \/ HwReceive
    \/ HwTransmit
    \/ USART2_IRQHandler

Spec == Init /\ [][Next]_vars

\* The steps of USART2_Init and of __io_putchar: the foreground runs whenever
\* no interrupt is being served, so a call that has started goes on.
ForegroundProgress ==
    \/ USART2_Init_Configure
    \/ USART2_Init_EnableInterrupts
    \/ USART2_Init_EnableIRQ
    \/ Putchar_EnqCheck
    \/ Putchar_EnqStore
    \/ Putchar_EnqPublish
    \/ Putchar_CR1Load
    \/ Putchar_CR1Store
    \/ Putchar_Return

\* The same system where a raised interrupt is served, the transmitter keeps
\* emptying TDR, and the foreground keeps running.
FairSpec ==
    /\ Init /\ [][Next]_vars
    /\ WF_vars(USART2_IRQHandler)
    /\ WF_vars(HwTransmit)
    /\ WF_vars(ForegroundProgress)

\* The steps of __io_getchar after the call: its busy-wait loop keeps
\* executing while no interrupt is being served.
GetcharProgress ==
    \/ Getchar_DeqCheck
    \/ Getchar_DeqLoad
    \/ Getchar_DeqPublish
    \/ Getchar_Test
    \/ Getchar_Return

\* FairSpec where the foreground also keeps running inside __io_getchar.
FairSpecRx ==
    /\ FairSpec
    /\ WF_vars(GetcharProgress)

(***************************************************************************)
(* USART2_Init under every configuration the defines can be given          *)
(***************************************************************************)
ParityInputs   == {"N", "E", "O", "X"}
DataBitsInputs == {7, 8, 9, 10}
StopBitsInputs == {0, 1, 2, 3}

\* The values the comments of the defines list as supported.
SupportedConfig ==
    /\ cfg_parity \in {"N", "E", "O"}
    /\ cfg_data_bits \in {8, 9}
    /\ cfg_stop_bits \in {1, 2}

ConfigInit ==
    /\ ResetState
    /\ cfg_parity \in ParityInputs
    /\ cfg_data_bits \in DataBitsInputs
    /\ cfg_stop_bits \in StopBitsInputs

\* main up to the return of USART2_Init.
ConfigNext ==
    \/ USART2_Init_Configure
    \/ USART2_Init_EnableInterrupts
    \/ USART2_Init_EnableIRQ

ConfigSpec == ConfigInit /\ [][ConfigNext]_vars

TypeOK ==
    /\ pc \in {"reset", "init_ie", "init_nvic", "idle", "pc_enq", "pc_store",
               "pc_pub", "pc_cr1_load", "pc_cr1_store", "pc_ret", "gc_deq",
               "gc_load", "gc_pub", "gc_test", "gc_ret"}
    /\ rx_head \in Indices /\ rx_tail \in Indices
    /\ tx_head \in Indices /\ tx_tail \in Indices
    /\ rx_buffer \in [Indices -> Bytes] /\ tx_buffer \in [Indices -> Bytes]
    /\ ISR \subseteq {"RXNE", "TXE"}
    /\ RDR \in 0 .. 511 /\ TDR \in Bytes
    /\ ret \in {0, 1}

(***************************************************************************)
(* Properties                                                              *)
(***************************************************************************)
IsPrefix(s, t) == Len(s) <= Len(t) /\ SubSeq(t, 1, Len(s)) = s

\* The bytes a buffer holds, oldest first: the slots from tail up to head.
RECURSIVE Contents(_, _, _)
Contents(buffer, tail, head) ==
    IF tail = head THEN <<>>
    ELSE <<buffer[tail]>> \o Contents(buffer, (tail + 1) % MAX_BUFFER_SIZE, head)

TxCount == Len(tx_accepted) - Len(tx_dequeued)
RxCount == Len(rx_accepted) - Len(rx_dequeued)

TxFullNow == (tx_head + 1) % MAX_BUFFER_SIZE = tx_tail
RxFullNow == (rx_head + 1) % MAX_BUFFER_SIZE = rx_tail

\* C1: under every interleaving of the foreground's steps with the interrupt
\* handler, on both buffers (tx: foreground enqueues, handler dequeues; rx:
\* handler enqueues, foreground dequeues), the bytes returned by successful
\* dequeues are a prefix of the bytes accepted by successful enqueues, and
\* the accepted bytes not yet dequeued are exactly the bytes the buffer
\* holds, in order: none duplicated, lost or altered.
C1_FifoOrder ==
    /\ IsPrefix(tx_dequeued, tx_accepted)
    /\ tx_accepted = tx_dequeued \o Contents(tx_buffer, tx_tail, tx_head)
    /\ IsPrefix(rx_dequeued, rx_accepted)
    /\ rx_accepted = rx_dequeued \o Contents(rx_buffer, rx_tail, rx_head)

\* Both buffers have carried bytes of different values, tx has wrapped, and
\* the foreground is preempted inside an enqueue.
C1_Witness ==
    /\ Len(tx_dequeued) = 3 /\ tx_dequeued[1] # tx_dequeued[2]
    /\ Len(rx_dequeued) = 2 /\ rx_dequeued[1] # rx_dequeued[2]

\* C2: an enqueue on a full buffer returns 0 and leaves head, tail and every
\* slot unchanged: for the foreground's enqueue into tx (it goes from its
\* full test straight to its return), for the handler's enqueue into rx,
\* and for cbfifo_enqueue applied to either buffer in any reachable state.
C2_EnqueueFull ==
    /\ [][(Putchar_EnqCheck /\ TxFullNow)
            => (ret' = 0 /\ pc' = "pc_cr1_load" /\ UNCHANGED tx)]_vars
    /\ [][(USART2_IRQHandler /\ HandlesRXNE /\ RxFullNow)
            => (UNCHANGED rx /\ rx_accepted' = rx_accepted)]_vars
    /\ [](\A d \in Bytes :
            /\ TxFullNow => cbfifo_enqueue(tx_buffer, tx_head, tx_tail, d)
                   = [ret |-> 0, buffer |-> tx_buffer, head |-> tx_head]
            /\ RxFullNow => cbfifo_enqueue(rx_buffer, rx_head, rx_tail, d)
                   = [ret |-> 0, buffer |-> rx_buffer, head |-> rx_head])

\* tx is full across the wrap and the foreground's enqueue has just been
\* refused.
C2_Witness ==
    /\ pc = "pc_cr1_load" /\ ret = 0 /\ TxFullNow
    /\ tx_head < tx_tail

\* C3: a dequeue on an empty buffer returns 0 and leaves head, tail, the
\* storage and the caller's output byte unchanged: for the foreground's
\* dequeue from rx, for the handler's dequeue from tx, and for
\* cbfifo_dequeue applied to either buffer in any reachable state.
C3_DequeueEmpty ==
    /\ [][(Getchar_DeqCheck /\ rx_head = rx_tail)
            => (ret' = 0 /\ pc' = "gc_test" /\ UNCHANGED <<rx, ch>>)]_vars
    /\ [][(USART2_IRQHandler /\ HandlesTXE /\ tx_head = tx_tail)
            => UNCHANGED <<tx, TDR, tx_dequeued, tdr_log>>]_vars
    /\ [](\A d \in Bytes :
            /\ tx_head = tx_tail => cbfifo_dequeue(tx_buffer, tx_head, tx_tail, d)
                   = [ret |-> 0, data |-> d, tail |-> tx_tail]
            /\ rx_head = rx_tail => cbfifo_dequeue(rx_buffer, rx_head, rx_tail, d)
                   = [ret |-> 0, data |-> d, tail |-> rx_tail])

\* The foreground's dequeue has just found rx empty after bytes went through
\* it, its output byte differs from the slot at tail, and the handler has
\* found tx empty after sending.
C3_Witness ==
    /\ pc = "gc_test" /\ ret = 0 /\ rx_head = rx_tail
    /\ rx_dequeued # <<>> /\ ch # rx_buffer[rx_tail]
    /\ stopped_after_drain /\ tx_head = tx_tail

\* C4: a buffer of capacity N takes a byte exactly when it holds fewer than
\* N-1: it never holds more than N-1, an enqueue in any reachable state
\* (any head and tail, wrapped or not) succeeds if and only if fewer than
\* N-1 accepted bytes are still to be dequeued, and a foreground enqueue
\* that has passed its full test had room.  So from empty exactly N-1
\* enqueues succeed and the N-th fails, and one dequeue makes room for
\* exactly one more.
C4_CapacityBoundary ==
    /\ TxCount \in 0 .. (MAX_BUFFER_SIZE - 1)
    /\ RxCount \in 0 .. (MAX_BUFFER_SIZE - 1)
    /\ \A d \in Bytes :
          /\ cbfifo_enqueue(tx_buffer, tx_head, tx_tail, d).ret = 1
                <=> TxCount < MAX_BUFFER_SIZE - 1
          /\ cbfifo_enqueue(rx_buffer, rx_head, rx_tail, d).ret = 1
                <=> RxCount < MAX_BUFFER_SIZE - 1
    /\ pc \in {"pc_store", "pc_pub"} => TxCount < MAX_BUFFER_SIZE - 1
    /\ (pc = "pc_enq" /\ TxCount < MAX_BUFFER_SIZE - 1) => ~IsFull(tx_head, tx_tail)
    /\ (pc = "pc_enq" /\ TxCount = MAX_BUFFER_SIZE - 1) => IsFull(tx_head, tx_tail)

\* Starting from tx empty at the last index, N-1 enqueues were accepted
\* across the wrap and the next one has just been refused.
C4_Witness ==
    /\ pc = "pc_cr1_load" /\ ret = 0
    /\ Len(tx_dequeued) = MAX_BUFFER_SIZE - 1
    /\ Len(tx_accepted) = 2 * (MAX_BUFFER_SIZE - 1)
    /\ tx_tail = MAX_BUFFER_SIZE - 1

TxeieEnabled == "TXEIE" \in CR1

InPutchar == pc \in {"pc_enq", "pc_store", "pc_pub", "pc_cr1_load",
                     "pc_cr1_store", "pc_ret"}

InitDone == pc \notin {"reset", "init_ie", "init_nvic"}

\* C5: the transmit state machine.  The enable-bit write that ends
\* write_byte leaves the transmit interrupt Enabled, whatever it was; a
\* handler run that handles transmit-ready and finds tx empty leaves it
\* Disabled; a handler run that finds a byte in tx sends it and leaves the
\* state as it was.
C5_TransmitStateMachine ==
    /\ [][Putchar_CR1Store => TxeieEnabled']_vars
    /\ [][(USART2_IRQHandler /\ HandlesTXE /\ tx_head = tx_tail)
            => ~TxeieEnabled']_vars
    /\ [][(USART2_IRQHandler /\ tx_head # tx_tail)
            => (TxeieEnabled' <=> TxeieEnabled)]_vars

\* The handler drained tx and then disabled the interrupt, and a later
\* write_byte has enabled it again.
C5_Witness ==
    /\ pc = "pc_ret" /\ TxeieEnabled
    /\ stopped_after_drain /\ Len(tx_accepted) >= 2
    /\ Len(tx_dequeued) < Len(tx_accepted)

\* C6 as claimed: from the end of USART2_Init until the first write_byte the
\* transmit interrupt is Disabled.
C6_DisabledUntilFirstWrite ==
    (InitDone /\ ~InPutchar /\ tx_accepted = <<>>) => ~TxeieEnabled

\* C6 amended: USART2_Init leaves the transmit interrupt Enabled; from the
\* line that sets it until the first write_byte it is Disabled exactly when
\* the interrupt handler has meanwhile handled transmit-ready, found tx
\* empty and cleared it.
C6_EnabledByInit ==
    (pc \notin {"reset", "init_ie"} /\ ~InPutchar /\ tx_accepted = <<>>)
        => (TxeieEnabled <=> ~txeie_cleared)

\* USART2_Init has returned, nothing has been written, and the transmit
\* interrupt is Enabled.
C6_Witness ==
    /\ pc = "idle" /\ NVIC /\ tx_accepted = <<>>
    /\ TxeieEnabled /\ ~txeie_cleared

\* C7 as claimed: write_byte returns the result of the tx enqueue, a true
\* value when the byte was accepted and false (0) when tx was full.
C7_ReturnsEnqueueResult ==
    pc = "pc_ret" => ((PutcharReturnValue # 0) <=> (ret = 1))

\* C8 as claimed: in every reachable state the transmit interrupt is
\* Enabled whenever tx is non-empty.
C8_EnabledWheneverNonEmpty ==
    tx_head # tx_tail => TxeieEnabled

\* C8 amended: the transmit interrupt is Enabled whenever tx is non-empty,
\* except inside write_byte after the enqueue has published the new head
\* and before the enable-bit write has been stored.
C8_EnabledOutsideWindow ==
    (tx_head # tx_tail /\ pc \notin {"pc_cr1_load", "pc_cr1_store"})
        => TxeieEnabled

\* The handler had disabled the interrupt, and write_byte has stored the
\* enable bit with a byte waiting in tx.
C8_Witness ==
    /\ pc = "pc_ret" /\ tx_head # tx_tail
    /\ TxeieEnabled /\ txeie_cleared

\* C9: with the interrupt served, the transmitter running and the
\* foreground running (weak fairness), every byte accepted into tx is
\* eventually written to TDR: the traffic of a run being finite, from some
\* point on the bytes written to TDR are all the bytes accepted.  The bytes
\* written are always a prefix of the bytes accepted: each once, in order of
\* acceptance.  (So tx never stays non-empty with the transmit interrupt
\* Disabled for ever: the handler writes TDR only while it is Enabled.)
C9_EventuallyTransmitted ==
    /\ <>[](tdr_log = tx_accepted)
    /\ [](IsPrefix(tdr_log, tx_accepted))

\* Every accepted byte has been written to TDR, tx having wrapped, after the
\* handler had once disabled the interrupt.
C9_Witness ==
    /\ Len(tx_accepted) > MAX_BUFFER_SIZE
    /\ tdr_log = tx_accepted
    /\ stopped_after_drain

\* C10: when the handler runs with receive-ready set and rx full, the
\* received byte is discarded: rx_head, rx_tail, the slots and the bytes
\* rx holds are unchanged.  The bytes rx holds are always the accepted
\* bytes not yet read, and read_byte returns the accepted bytes in order,
\* so the bytes buffered at the overflow are read as if the discarded byte
\* had never arrived.
C10_ReceiveOverflow ==
    /\ [][(USART2_IRQHandler /\ HandlesRXNE /\ RxFullNow)
            => /\ rx_head' = rx_head /\ rx_tail' = rx_tail
               /\ rx_buffer' = rx_buffer
               /\ rx_accepted' = rx_accepted
               /\ rx_dropped' = rx_dropped + 1
               /\ "RXNE" \notin ISR']_vars
    /\ [](rx_accepted = rx_dequeued \o Contents(rx_buffer, rx_tail, rx_head))
    /\ [](pc = "gc_ret" =>
            /\ rx_dequeued # <<>>
            /\ GetcharReturnValue = rx_dequeued[Len(rx_dequeued)]
            /\ GetcharReturnValue = rx_accepted[Len(rx_dequeued)])

\* A byte was discarded while rx held N-1 unread bytes, and read_byte is
\* now returning the last of them.
C10_Witness ==
    /\ rx_dropped >= 1
    /\ Len(rx_accepted) = MAX_BUFFER_SIZE - 1
    /\ Len(rx_dequeued) = MAX_BUFFER_SIZE - 1
    /\ rx_accepted[1] # rx_accepted[2]
    /\ pc = "gc_ret"

\* C11: the transmit interrupt goes from Enabled to Disabled only in a step of
\* the interrupt handler that took the transmit branch and found tx empty (it
\* moved no byte); and a handler step that moved a byte into TDR leaves the
\* interrupt Enabled.
C11_DisabledOnlyOnEmptyDequeue ==
    [][ /\ (TxeieEnabled /\ ~TxeieEnabled') =>
              /\ USART2_IRQHandler
              /\ "TXE" \in ISR
              /\ tx_head = tx_tail
              /\ UNCHANGED <<tx_tail, TDR, tdr_log, tx_dequeued>>
        /\ (USART2_IRQHandler /\ tx_dequeued' # tx_dequeued) =>
              (TxeieEnabled /\ TxeieEnabled')
        /\ (USART2_IRQHandler /\ TxeieEnabled /\ "TXE" \in ISR
              /\ tx_head = tx_tail) => ~TxeieEnabled' ]_vars

\* The handler has sent two bytes and then, finding tx empty, disabled the
\* interrupt.
C11_Witness ==
    /\ ~TxeieEnabled
    /\ stopped_after_drain
    /\ Len(tdr_log) >= 2
    /\ tx_head = tx_tail
    /\ pc = "idle"

\* C12: __io_getchar reaches its return only from the loop test after a
\* dequeue that returned 1, and the byte it returns is the oldest byte accepted
\* into rx that had not been read; while rx is empty its dequeue returns 0 and
\* the loop goes round again; once rx holds a byte while it is in the loop, it
\* eventually returns.
C12_ReadByteBlocksUntilByte ==
    /\ [](pc = "gc_ret" =>
             /\ ret = 1
             /\ rx_dequeued # <<>>
             /\ Len(rx_dequeued) <= Len(rx_accepted)
             /\ GetcharReturnValue = rx_accepted[Len(rx_dequeued)])
    /\ [][ /\ (pc' = "gc_ret" /\ pc # "gc_ret") =>
                 (pc = "gc_test" /\ ret = 1 /\ UNCHANGED <<ch, rx_dequeued>>)
           /\ (pc = "gc_deq" /\ rx_head = rx_tail /\ pc' # pc) =>
                 (pc' = "gc_test" /\ ret' = 0 /\ UNCHANGED <<rx, rx_dequeued>>)
           /\ (pc = "gc_test" /\ ret = 0 /\ pc' # pc) =>
                 (pc' = "gc_deq" /\ UNCHANGED <<rx, rx_dequeued>>) ]_vars
    /\ ((pc \in {"gc_deq", "gc_load", "gc_pub", "gc_test"} /\ rx_head # rx_tail)
           ~> (pc = "gc_ret"))

\* __io_getchar found rx empty, and the handler has enqueued a byte since, while
\* the loop is still running.
C12_Witness ==
    /\ pc = "gc_test"
    /\ ret = 0
    /\ rx_head # rx_tail
    /\ rx_dequeued = <<>>

\* C13: rx_head and tx_tail change only in steps of the interrupt handler,
\* rx_tail changes only in the publishing step of __io_getchar's dequeue and
\* tx_head only in the publishing step of __io_putchar's enqueue; a handler
\* step leaves rx_tail and tx_head unchanged and a foreground step (one that
\* moves pc) leaves rx_head and tx_tail unchanged.
C13_IndexOwnership ==
    [][ /\ (rx_head' # rx_head) => USART2_IRQHandler
        /\ (tx_tail' # tx_tail) => USART2_IRQHandler
        /\ (rx_tail' # rx_tail) => (pc = "gc_pub" /\ pc' = "gc_test")
        /\ (tx_head' # tx_head) => (pc = "pc_pub" /\ pc' = "pc_cr1_load")
        /\ USART2_IRQHandler => UNCHANGED <<rx_tail, tx_head, pc>>
        /\ (pc' # pc) => UNCHANGED <<rx_head, tx_tail>> ]_vars

\* Each of the four indices has been advanced by its owner.
C13_Witness ==
    /\ rx_head = 2
    /\ tx_tail = 1
    /\ rx_tail = 1
    /\ tx_head = 2

\* C14: when a configuration parameter is outside the supported range (data
\* bits not 8 or 9, parity not N, E or O, stop bits not 1 or 2), USART2_Init
\* does not enable the port: UE, TE and RE stay clear and the interrupt stays
\* disabled in the NVIC.
C14_UnsupportedConfigNotEnabled ==
    (~SupportedConfig) =>
        /\ CR1 \cap {"UE", "TE", "RE"} = {}
        /\ NVIC = FALSE

\* C15: in every reachable state, for rx and for tx, head and tail lie in
\* 0 .. N-1, the occupied count (head - tail) mod N is the number of bytes
\* accepted and not yet dequeued and is at most N-1; the buffer holds N-1
\* bytes exactly when (head + 1) mod N = tail and none exactly when
\* head = tail, and the two never hold together.
C15_IndexInvariant ==
    /\ tx_head \in 0 .. (MAX_BUFFER_SIZE - 1)
    /\ tx_tail \in 0 .. (MAX_BUFFER_SIZE - 1)
    /\ rx_head \in 0 .. (MAX_BUFFER_SIZE - 1)
    /\ rx_tail \in 0 .. (MAX_BUFFER_SIZE - 1)
    /\ (tx_head - tx_tail) % MAX_BUFFER_SIZE = TxCount
    /\ (rx_head - rx_tail) % MAX_BUFFER_SIZE = RxCount
    /\ TxCount <= MAX_BUFFER_SIZE - 1
    /\ RxCount <= MAX_BUFFER_SIZE - 1
    /\ (TxCount = MAX_BUFFER_SIZE - 1) <=> ((tx_head + 1) % MAX_BUFFER_SIZE = tx_tail)
    /\ (RxCount = MAX_BUFFER_SIZE - 1) <=> ((rx_head + 1) % MAX_BUFFER_SIZE = rx_tail)
    /\ (TxCount = 0) <=> (tx_head = tx_tail)
    /\ (RxCount = 0) <=> (rx_head = rx_tail)
    /\ ~(IsFull(tx_head, tx_tail) /\ IsEmpty(tx_head, tx_tail))
    /\ ~(IsFull(rx_head, rx_tail) /\ IsEmpty(rx_head, rx_tail))

\* tx is full with its head wrapped to slot 0 while rx is empty after one byte
\* went through it.
C15_Witness ==
    /\ tx_head = 0 /\ tx_tail = 1
    /\ TxCount = MAX_BUFFER_SIZE - 1
    /\ rx_head = 1 /\ rx_tail = 1
    /\ RxCount = 0

\* C16: tx_tail moves and TDR is written only in a handler step taken with
\* TXEIE set and TXE set; a handler step taken with TXEIE clear (so raised by
\* RXNE alone) leaves tx_tail, TDR and CR1 unchanged; and while TXEIE is clear
\* no step at all moves tx_tail or writes TDR, and after USART2_Init only
\* __io_putchar's CR1 write sets the bit again.
C16_TransmitOnlyWhenEnabledAndReady ==
    [][ /\ (tx_tail' # tx_tail \/ tdr_log' # tdr_log \/ TDR' # TDR) =>
              /\ USART2_IRQHandler
              /\ TxeieEnabled
              /\ "TXE" \in ISR
        /\ (USART2_IRQHandler /\ ~TxeieEnabled) =>
              /\ "RXNE" \in ISR
              /\ UNCHANGED <<tx, TDR, tdr_log, tx_dequeued, CR1>>
        /\ (~TxeieEnabled) => UNCHANGED <<tx_tail, TDR, tdr_log, tx_dequeued>>
        /\ (InitDone /\ ~TxeieEnabled /\ TxeieEnabled') =>
              pc = "pc_cr1_store" ]_vars

\* No __io_putchar has run since USART2_Init, the handler has disabled the
\* transmit interrupt, and two bytes have been received: the second of them
\* was taken by an invocation raised by RXNE alone.
C16_Witness ==
    /\ InitDone
    /\ ~TxeieEnabled
    /\ tx_accepted = <<>>
    /\ pc = "idle"
    /\ Len(rx_accepted) = 2
    /\ "TXE" \in ISR

\* C17: a handler step taken with RXNE set reads RDR (which clears RXNE, and
\* leaves RDR as it was) and makes exactly one rx enqueue attempt, whose byte,
\* when it is accepted, is the low 8 bits of RDR, stored in the slot at the old
\* rx_head; a handler step taken with RXNE clear does not read RDR and leaves
\* rx alone.
C17_ReceiveReadsOnceLowByte ==
    [][ USART2_IRQHandler =>
          /\ RDR' = RDR
          /\ ("RXNE" \in ISR) =>
                /\ "RXNE" \notin ISR'
                /\ Len(rx_accepted') + rx_dropped'
                       = Len(rx_accepted) + rx_dropped + 1
                /\ (rx_accepted' # rx_accepted) =>
                      /\ rx_accepted' = Append(rx_accepted, RDR % 256)
                      /\ rx_buffer' = [rx_buffer EXCEPT ![rx_head] = RDR % 256]
                      /\ rx_head' = (rx_head + 1) % MAX_BUFFER_SIZE
                /\ (rx_accepted' = rx_accepted) => UNCHANGED rx
          /\ ("RXNE" \notin ISR) =>
                /\ "RXNE" \notin ISR'
                /\ UNCHANGED <<rx, rx_accepted, rx_dropped>> ]_vars

\* A received word whose ninth bit (the parity bit) is set has been read by the
\* handler and its low 8 bits accepted into rx.
C17_Witness ==
    /\ RDR >= 256
    /\ "RXNE" \notin ISR
    /\ rx_dropped = 0
    /\ rx_accepted # <<>>
    /\ rx_accepted[Len(rx_accepted)] = RDR - 256
    /\ rx_buffer[(rx_head + MAX_BUFFER_SIZE - 1) % MAX_BUFFER_SIZE] = RDR - 256

C19_SlotBeforeIndex ==
    /\ (pc \in {"pc_store", "pc_pub"}) =>
          \A g \in Bytes :
              LET deq == cbfifo_dequeue(tx_buffer, tx_head, tx_tail, g)
              IN  (deq.ret = 1) =>
                     /\ tx_tail # tx_head
                     /\ Len(tx_dequeued) < Len(tx_accepted)
                     /\ deq.data = tx_accepted[Len(tx_dequeued) + 1]
    /\ (pc = "pc_pub") =>
          /\ tx_buffer[tx_head] = ch % 256
          /\ next = (tx_head + 1) % MAX_BUFFER_SIZE
          /\ next # tx_tail
    /\ (pc \in {"gc_load", "gc_pub"}) =>
          /\ rx_head # rx_tail
          /\ Len(rx_dequeued) < Len(rx_accepted)
          /\ rx_buffer[rx_tail] = rx_accepted[Len(rx_dequeued) + 1]
          /\ \A d \in Bytes :
                cbfifo_enqueue(rx_buffer, rx_head, rx_tail, d).buffer[rx_tail]
                    = rx_buffer[rx_tail]
    /\ (pc = "gc_pub") => ch = rx_buffer[rx_tail]

\* The foreground enqueue has not yet stored its byte (the slot at head holds
\* another value), tx holds an earlier byte, and the handler is about to run
\* its transmit branch.
C19_Witness ==
    /\ pc = "pc_store"
    /\ tx_buffer[tx_head] # ch % 256
    /\ tx_head # tx_tail
    /\ IRQPending
    /\ HandlesTXE

\* C20: in every state where the foreground is not between the enqueue of a
\* __io_putchar and the end of its CR1 |= TXEIE, bytes accepted into tx and
\* not yet dequeued imply TXEIE set.  The write-back of CR1 |= TXEIE sets
\* TXEIE whatever the handler did since CR1 was loaded, and the handler clears
\* TXEIE only in a step that leaves tx empty, so no state after __io_putchar's
\* CR1 write has tx non-empty with TXEIE clear.
C20_EnabledOutsidePutcharWindow ==
    /\ []((TxCount > 0 /\ pc \notin {"pc_cr1_load", "pc_cr1_store"})
             => "TXEIE" \in CR1)
    /\ []((pc \in {"pc_ret", "idle"} /\ "TXEIE" \notin CR1) => tx_head = tx_tail)
    /\ [][ /\ (pc = "pc_cr1_store" /\ pc' # pc) =>
                 /\ pc' = "pc_ret"
                 /\ "TXEIE" \in CR1'
                 /\ CR1' \ {"TXEIE"} = cr1_tmp \ {"TXEIE"}
           /\ ("TXEIE" \in CR1 /\ "TXEIE" \notin CR1') =>
                 (tx_head' = tx_tail' /\ TxCount' = 0) ]_vars

\* The handler preempted a successful __io_putchar between the load and the
\* write-back of CR1, sent what tx held and cleared TXEIE: the loaded value
\* has the bit set, CR1 no longer has it.
C20_Witness ==
    /\ pc = "pc_cr1_store"
    /\ ret = 1
    /\ "TXEIE" \in cr1_tmp
    /\ "TXEIE" \notin CR1
    /\ TxCount = 0

====
